---- MODULE Spec2Model ----
(***************************************************************************)
(* PathProbe: the OSPF database parsers (ospf_parser.py, docstring v1.10,  *)
(* and ospf_parser_v1.11.py) and the topology generator                    *)
(* (ospf_html_v1.14.py), as state machines.                                *)
(*                                                                         *)
(* A line of input is the sequence of its whitespace-separated tokens      *)
(* (what str.split() returns); the blank line is <<>>.  A substring        *)
(* pattern made of whole words ("Router Link States") is matched as a      *)
(* contiguous run of tokens, str.startswith as a prefix of tokens.         *)
(* Character-level functions (lower, isdigit, int, strip, the regex        *)
(* groups) are tabulated over the tokens of the input alphabet.            *)
(***************************************************************************)
EXTENDS Integers, Sequences, FiniteSets, TLC

VARIABLES
    prog,           \* which program runs: "v110" | "v111" | "html"
    interactive,    \* OspfParser.interactive (v110)
    lines,          \* f.readlines()
    i,              \* 1-based number of the line the scanning loop is at
    pc,             \* "scan" | "block" | "export" | "done" | "exited" | "crashed" | "idle"
    j,              \* position inside the block handed to _process_block
    block_type,     \* current_type (v110) / block_type (v111); None is "None"
    block_lines,
    start_line_no,  \* v111
    router_lsas,
    network_lsas,
    summary_lsas,
    skipped,        \* v110 counter
    stdout_warn,    \* v110: the "[WARN] Skipping malformed ..." lines printed
    skipped_lsas,   \* v111 list
    output,         \* <<>> until output/parsed_output.json is written, then <<document>>
    data,           \* html: self.data
    node_map,       \* html: self.node_map
    ghost_count,    \* html: self.ghost_count
    nodes,          \* html: net_vis nodes in insertion order
    edges,          \* html: net_vis edges in insertion order
    hpc,            \* html: position in generate_html_topology
    hidx            \* html: 1-based index of the record the current loop is at

pvars == <<prog, interactive, lines, i, pc, j, block_type, block_lines, start_line_no,
           router_lsas, network_lsas, summary_lsas, skipped, stdout_warn,
           skipped_lsas, output>>
hvars == <<data, node_map, ghost_count, nodes, edges, hpc, hidx>>
vars == <<prog, interactive, lines, i, pc, j, block_type, block_lines, start_line_no,
          router_lsas, network_lsas, summary_lsas, skipped, stdout_warn,
          skipped_lsas, output, data, node_map, ghost_count, nodes, edges, hpc, hidx>>

(***************************************************************************)
(* Bounds                                                                  *)
(***************************************************************************)
MaxLines == 3

(***************************************************************************)
(* Input alphabet                                                          *)
(***************************************************************************)
LRid == <<"OSPF", "Router", "with", "ID", "(10.0.0.1)">>
LRls == <<"Router", "Link", "States", "(Area", "0)">>
LLink == <<"10.0.0.2", "64">>
LConn == <<"Link", "connected", "to", "10.0.0.2", "10">>
LNetwork == <<"Network", "Link", "States">>
LNet == <<"Net", "Link", "States", "(Area", "0)">>
LNetLsas == <<"Network", "LSAs">>
LSumHdr == <<"Summary", "Net", "Link", "States", "(Area", "0)">>
LSumLsas == <<"summary", "net", "lsas">>
LLinkId == <<"Link", "ID", "ADV", "Router">>
LOne == <<"10.0.0.0">>
LSum6 == <<"10.1.0.0", "10.0.0.3", "1", "2", "3", "7">>
LSum6x == <<"10.1.0.0", "10.0.0.3", "1", "2", "3", "x">>
\* "sup2" stands for the one-character token U+00B2: str.isdigit() is True
\* for it and int() raises ValueError.
LSup == <<"10.1.0.0", "10.0.0.3", "sup2">>
LBadRid == <<"Router", "with", "ID">>
Blank == <<>>

LineAlphabet ==
    {LRid, LRls, LLink, LConn, LNetwork, LNet, LNetLsas, LSumHdr, LSumLsas,
     LLinkId, LOne, LSum6, LSum6x, LSup, LBadRid, Blank}

RECURSIVE SeqsUpTo(_, _)
SeqsUpTo(S, n) ==
    IF n = 0 THEN {<<>>}
    ELSE LET shorter == SeqsUpTo(S, n - 1)
         IN shorter \cup {Append(s, x) : s \in {t \in shorter : Len(t) = n - 1}, x \in S}

Inputs == SeqsUpTo(LineAlphabet, MaxLines)

(***************************************************************************)
(* Character-level functions, tabulated over the tokens                    *)
(***************************************************************************)
\* str.lower()
Lower(t) ==
    CASE t = "OSPF" -> "ospf"
      [] t = "Router" -> "router"
      [] t = "ID" -> "id"
      [] t = "Link" -> "link"
      [] t = "States" -> "states"
      [] t = "(Area" -> "(area"
      [] t = "Net" -> "net"
      [] t = "Network" -> "network"
      [] t = "LSAs" -> "lsas"
      [] t = "Summary" -> "summary"
      [] t = "ADV" -> "adv"
      [] OTHER -> t

LowerLine(line) == [k \in 1..Len(line) |-> Lower(line[k])]

\* str.isdigit()
IsDigit(t) == t \in {"64", "10", "1", "2", "3", "7", "sup2"}

\* int(t) succeeds
IntParses(t) == t \in {"64", "10", "1", "2", "3", "7"}

\* int(t), where it succeeds
IntOf(t) ==
    CASE t = "64" -> 64
      [] t = "10" -> 10
      [] t = "1" -> 1
      [] t = "2" -> 2
      [] t = "3" -> 3
      [] t = "7" -> 7

\* t.strip("()")
StripParens(t) ==
    CASE t = "(10.0.0.1)" -> "10.0.0.1"
      [] t = "(Area" -> "Area"
      [] t = "0)" -> "0"
      [] OTHER -> t

\* group 1 of  \(?([\d.]+)\)?  anchored at the start of the token; "" is no match
DottedGroup(t) ==
    CASE t = "(10.0.0.1)" -> "10.0.0.1"
      [] t = "0)" -> "0"
      [] t \in {"10.0.0.2", "10.0.0.0", "10.1.0.0", "10.0.0.3",
                "64", "10", "1", "2", "3", "7"} -> t
      [] OTHER -> ""

\* group 1 of  (\d+)\)  anchored at the start of the token; "" is no match
AreaGroup(t) == IF t = "0)" THEN "0" ELSE ""

\* pat in line  (pattern of whole words)
Contains(line, pat) ==
    \E k \in 1..(Len(line) - Len(pat) + 1) : SubSeq(line, k, k + Len(pat) - 1) = pat

\* line.startswith(pat)
StartsWith(line, pat) ==
    /\ Len(line) >= Len(pat)
    /\ SubSeq(line, 1, Len(pat)) = pat

SetMin(S) == CHOOSE x \in S : \A y \in S : x <= y

(***************************************************************************)
(* ospf_parser.py (v1.10)                                                  *)
(***************************************************************************)
\* parse: header_patterns, in the dict's insertion order
header_patterns ==
    [router |-> <<<<"OSPF", "Router", "with", "ID">>, <<"Router", "Link", "States">>>>,
     network |-> <<<<"Network", "Link", "States">>, <<"Net", "Link", "States">>,
                   <<"Network", "LSAs">>>>,
     summary |-> <<<<"Summary", "Net", "Link", "States">>, <<"Summary", "Net", "LSAs">>>>]

\* any(p.lower() in stripped.lower() for p in patterns)
MatchesAny(stripped, patterns) ==
    \E n \in 1..Len(patterns) : Contains(LowerLine(stripped), LowerLine(patterns[n]))

\* parse: the detection loop; the first type, in dict order, with a matching pattern
DetectedType(stripped) ==
    IF MatchesAny(stripped, header_patterns.router) THEN "router"
    ELSE IF MatchesAny(stripped, header_patterns.network) THEN "network"
    ELSE IF MatchesAny(stripped, header_patterns.summary) THEN "summary"
    ELSE "None"

\* re.search(r"OSPF Router with ID\s*\(?([\d.]+)\)?", line, re.I): group 1, "" if no match
RouterIdMatch(line) ==
    LET low == LowerLine(line)
        ks == {k \in 1..(Len(line) - 4) :
                 /\ SubSeq(low, k, k + 3) = <<"ospf", "router", "with", "id">>
                 /\ DottedGroup(line[k + 4]) # ""}
    IN IF ks = {} THEN "" ELSE DottedGroup(line[SetMin(ks) + 4])

\* re.search(r"Router Link States\s*\(Area (\d+)\)", line, re.I): group 1, "" if no match
AreaMatch(line) ==
    LET low == LowerLine(line)
        ks == {k \in 1..(Len(line) - 4) :
                 /\ SubSeq(low, k, k + 3) = <<"router", "link", "states", "(area">>
                 /\ AreaGroup(line[k + 4]) # ""}
    IN IF ks = {} THEN "" ELSE AreaGroup(line[SetMin(ks) + 4])

\* BlockRouterId with a default id where no line matches
BlockRouterId_Default(blines) ==
    LET ms == {k \in 1..Len(blines) : RouterIdMatch(blines[k].line) # ""}
    IN IF ms = {} THEN "0.0.0.0" ELSE RouterIdMatch(blines[SetMin(ms)].line)

\* _parse_router_block: router_id of the first matching line, "" for None
BlockRouterId(blines) ==
    LET ms == {k \in 1..Len(blines) : RouterIdMatch(blines[k].line) # ""}
    IN IF ms = {} THEN "" ELSE RouterIdMatch(blines[SetMin(ms)].line)

\* _parse_router_block: area_id of the first matching line, default "0"
BlockAreaId(blines) ==
    LET ms == {k \in 1..Len(blines) : AreaMatch(blines[k].line) # ""}
    IN IF ms = {} THEN "0" ELSE AreaMatch(blines[SetMin(ms)].line)

\* _parse_router_block: the link loop; links collected and the number of lines
\* whose int() raised inside the inner try (counted in self.skipped)
RECURSIVE RouterLinks(_)
RouterLinks(blines) ==
    IF blines = <<>> THEN [links |-> <<>>, fails |-> 0]
    ELSE LET parts == Head(blines).line
             rest == RouterLinks(Tail(blines))
         IN IF Contains(parts, <<"Link", "ID">>) \/ Contains(parts, <<"Link", "connected">>)
            THEN rest
            ELSE IF Len(parts) >= 2
                 THEN IF IsDigit(parts[Len(parts)]) /\ ~IntParses(parts[Len(parts)])
                      THEN [rest EXCEPT !.fails = @ + 1]
                      ELSE [rest EXCEPT !.links =
                               <<[link_id |-> parts[1],
                                  metric |-> IF IsDigit(parts[Len(parts)])
                                             THEN IntOf(parts[Len(parts)]) ELSE 0]>> \o @]
                 ELSE rest

\* _parse_summary_block: next((int(x) for x in parts[2:] if x.isdigit()), 0);
\* [ok |-> FALSE] when int() raises on the first isdigit token
RECURSIVE SummaryMetric(_)
SummaryMetric(rest) ==
    IF rest = <<>> THEN [ok |-> TRUE, metric |-> 0]
    ELSE IF IsDigit(Head(rest))
         THEN IF IntParses(Head(rest)) THEN [ok |-> TRUE, metric |-> IntOf(Head(rest))]
              ELSE [ok |-> FALSE, metric |-> 0]
         ELSE SummaryMetric(Tail(rest))

\* _handle_skipped: the answers the operator can give at this call
Answers == IF interactive THEN {"s", "a"} ELSE {"s"}

\* _handle_skipped(lsa_type, block_lines, reason) with the operator's answer;
\* nextpc is where the caller continues when the process does not exit
handle_skipped(lsa_type, reason, choice, nextpc) ==
    /\ skipped' = skipped + 1
    /\ stdout_warn' = Append(stdout_warn, [type |-> lsa_type, reason |-> reason])
    /\ pc' = IF interactive /\ choice = "a" THEN "exited" ELSE nextpc

\* the block _process_block is working on has been worked through
BlockDone ==
    IF prog = "v110"
    THEN IF block_type = "router" THEN j > 1 ELSE j > Len(block_lines) - 1
    ELSE IF block_type = "ROUTER" THEN j > 1
         ELSE IF block_type = "None" THEN TRUE
         ELSE j > Len(block_lines) - 1

\* parse, lines 71-92: one iteration of the scanning loop; a header line that
\* has a block to flush enters _process_block first (line 87)
parse_ReadLine ==
    /\ prog = "v110" /\ pc = "scan" /\ i <= Len(lines)
    /\ LET stripped == lines[i]
           detected_type == DetectedType(stripped)
       IN IF stripped = <<>>
          THEN i' = i + 1 /\ UNCHANGED <<pc, j, block_type, block_lines>>
          ELSE IF detected_type # "None"
               THEN IF block_lines # <<>> /\ block_type # "None"
                    THEN pc' = "block" /\ j' = 1 /\ UNCHANGED <<i, block_type, block_lines>>
                    ELSE /\ block_type' = detected_type
                         /\ block_lines' = <<[lineno |-> i, line |-> stripped]>>
                         /\ i' = i + 1
                         /\ UNCHANGED <<pc, j>>
               ELSE /\ block_lines' = IF block_type # "None"
                                      THEN Append(block_lines, [lineno |-> i, line |-> stripped])
                                      ELSE block_lines
                    /\ i' = i + 1
                    /\ UNCHANGED <<pc, j, block_type>>
    /\ UNCHANGED <<prog, interactive, lines, start_line_no, router_lsas, network_lsas,
                   summary_lsas, skipped, stdout_warn, skipped_lsas, output>>
    /\ UNCHANGED hvars

\* parse, lines 94-95: the loop is over; flush the last block
parse_EndOfInput ==
    /\ prog = "v110" /\ pc = "scan" /\ i > Len(lines)
    /\ IF block_lines # <<>> /\ block_type # "None"
       THEN pc' = "block" /\ j' = 1
       ELSE pc' = "export" /\ j' = j
    /\ UNCHANGED <<prog, interactive, lines, i, block_type, block_lines, start_line_no,
                   router_lsas, network_lsas, summary_lsas, skipped, stdout_warn,
                   skipped_lsas, output>>
    /\ UNCHANGED hvars

\* parse continuing after _process_block without starting a new block_lines list
parse_BlockReturn_KeepBlock ==
    /\ prog = "v110" /\ pc = "block" /\ BlockDone
    /\ IF i <= Len(lines)
       THEN /\ block_type' = DetectedType(lines[i])
            /\ block_lines' = Append(block_lines, [lineno |-> i, line |-> lines[i]])
            /\ i' = i + 1
            /\ pc' = "scan"
       ELSE pc' = "export" /\ UNCHANGED <<i, block_type, block_lines>>
    /\ UNCHANGED <<prog, interactive, lines, j, start_line_no, router_lsas, network_lsas,
                   summary_lsas, skipped, stdout_warn, skipped_lsas, output>>
    /\ UNCHANGED hvars

\* _process_block returns: lines 88-89 in the loop, line 97 after it
parse_BlockReturn ==
    /\ prog = "v110" /\ pc = "block" /\ BlockDone
    /\ IF i <= Len(lines)
       THEN /\ block_type' = DetectedType(lines[i])
            /\ block_lines' = <<[lineno |-> i, line |-> lines[i]]>>
            /\ i' = i + 1
            /\ pc' = "scan"
       ELSE pc' = "export" /\ UNCHANGED <<i, block_type, block_lines>>
    /\ UNCHANGED <<prog, interactive, lines, j, start_line_no, router_lsas, network_lsas,
                   summary_lsas, skipped, stdout_warn, skipped_lsas, output>>
    /\ UNCHANGED hvars

\* _parse_router_block
parse_router_block ==
    /\ prog = "v110" /\ pc = "block" /\ block_type = "router" /\ j = 1
    /\ j' = 2
    /\ LET router_id == BlockRouterId(block_lines)
           area_id == BlockAreaId(block_lines)
           r == RouterLinks(block_lines)
       IN IF router_id = ""
          THEN /\ \E choice \in Answers :
                     handle_skipped("Router", "Missing router ID", choice, "block")
               /\ UNCHANGED router_lsas
          ELSE /\ router_lsas' = Append(router_lsas,
                     [router_id |-> router_id, area_id |-> area_id, links |-> r.links])
               /\ skipped' = skipped + r.fails
               /\ UNCHANGED <<pc, stdout_warn>>
    /\ UNCHANGED <<prog, interactive, lines, i, block_type, block_lines, start_line_no,
                   network_lsas, summary_lsas, skipped_lsas, output>>
    /\ UNCHANGED hvars

\* _parse_network_block: one iteration of the loop over data_lines
parse_network_block ==
    /\ prog = "v110" /\ pc = "block" /\ block_type = "network" /\ ~BlockDone
    /\ j' = j + 1
    /\ LET parts == block_lines[j + 1].line
       IN IF Contains(parts, <<"Link", "ID">>)
          THEN UNCHANGED <<pc, skipped, stdout_warn, network_lsas>>
          ELSE IF Len(parts) < 2
               THEN /\ \E choice \in Answers :
                          handle_skipped("Network", "Insufficient columns", choice, "block")
                    /\ UNCHANGED network_lsas
               ELSE /\ network_lsas' = Append(network_lsas,
                          [network_id |-> parts[1], attached_routers |-> <<parts[2]>>,
                           area_id |-> "0"])
                    /\ UNCHANGED <<pc, skipped, stdout_warn>>
    /\ UNCHANGED <<prog, interactive, lines, i, block_type, block_lines, start_line_no,
                   router_lsas, summary_lsas, skipped_lsas, output>>
    /\ UNCHANGED hvars

\* _parse_summary_block: one iteration of the loop over data_lines; a ValueError
\* from int() leaves the loop through the except clause (line 189)
parse_summary_block ==
    /\ prog = "v110" /\ pc = "block" /\ block_type = "summary" /\ ~BlockDone
    /\ LET parts == block_lines[j + 1].line
           m == SummaryMetric(SubSeq(parts, 3, Len(parts)))
       IN IF Contains(parts, <<"Link", "ID">>)
          THEN j' = j + 1 /\ UNCHANGED <<pc, skipped, stdout_warn, summary_lsas>>
          ELSE IF Len(parts) < 3
               THEN /\ \E choice \in Answers :
                          handle_skipped("Summary", "Insufficient columns", choice, "block")
                    /\ j' = j + 1
                    /\ UNCHANGED summary_lsas
               ELSE IF ~m.ok
                    THEN /\ \E choice \in Answers :
                               handle_skipped("Summary", "invalid literal for int()",
                                              choice, "block")
                         /\ j' = Len(block_lines)
                         /\ UNCHANGED summary_lsas
                    ELSE /\ summary_lsas' = Append(summary_lsas,
                               [adv_router |-> parts[2], prefix |-> parts[1],
                                metric |-> m.metric, area_id |-> "0"])
                         /\ j' = j + 1
                         /\ UNCHANGED <<pc, skipped, stdout_warn>>
    /\ UNCHANGED <<prog, interactive, lines, i, block_type, block_lines, start_line_no,
                   router_lsas, network_lsas, skipped_lsas, output>>
    /\ UNCHANGED hvars

\* _report and _export_json (asdict keeps each dataclass's field names)
export_json ==
    /\ prog = "v110" /\ pc = "export"
    /\ output' = <<[router_lsas |-> router_lsas, network_lsas |-> network_lsas,
                    summary_lsas |-> summary_lsas]>>
    /\ pc' = "done"
    /\ UNCHANGED <<prog, interactive, lines, i, j, block_type, block_lines, start_line_no,
                   router_lsas, network_lsas, summary_lsas, skipped, stdout_warn,
                   skipped_lsas>>
    /\ UNCHANGED hvars

(***************************************************************************)
(* ospf_parser_v1.11.py                                                    *)
(***************************************************************************)
\* parse_file, lines 28-45: the block a line opens, "None" if it opens none
HeaderKind(stripped, bt) ==
    IF StartsWith(stripped, <<"OSPF", "Router">>)
       \/ StartsWith(stripped, <<"Router", "Link", "States">>)
    THEN "ROUTER"
    ELSE IF StartsWith(stripped, <<"Summary", "Net", "Link", "States">>)
         THEN "SUMMARY"
         ELSE IF StartsWith(stripped, <<"Link", "ID">>) /\ bt # "ROUTER"
              THEN "NETWORK"
              ELSE "None"

\* _process_block, ROUTER: some "Router with ID" line has no parts[3] (IndexError)
RouterIdRaises(blines) ==
    \E k \in 1..Len(blines) :
        Contains(blines[k], <<"Router", "with", "ID">>) /\ Len(blines[k]) < 4

\* _process_block, ROUTER: router_id after the loop (the last assignment wins), "" for None
LastRouterId(blines) ==
    LET ms == {k \in 1..Len(blines) : Contains(blines[k], <<"Router", "with", "ID">>)}
    IN IF ms = {} THEN ""
       ELSE StripParens(blines[CHOOSE k \in ms : \A m \in ms : m <= k][4])

\* _process_block, ROUTER: the "Link connected to" lines, stripped
ConnectedLinks(blines) ==
    SelectSeq(blines, LAMBDA l : Contains(l, <<"Link", "connected", "to">>))

\* parse_file, lines 26-47: one iteration of the scanning loop; a header line
\* with a non-empty block_lines enters _process_block first
parse_file_ReadLine ==
    /\ prog = "v111" /\ pc = "scan" /\ i <= Len(lines)
    /\ LET stripped == lines[i]
           kind == HeaderKind(stripped, block_type)
       IN IF kind # "None"
          THEN IF block_lines # <<>>
               THEN pc' = "block" /\ j' = 1
                    /\ UNCHANGED <<i, block_type, block_lines, start_line_no>>
               ELSE /\ block_type' = kind
                    /\ start_line_no' = i
                    /\ block_lines' = <<lines[i]>>
                    /\ i' = i + 1
                    /\ UNCHANGED <<pc, j>>
          ELSE /\ block_lines' = Append(block_lines, lines[i])
               /\ i' = i + 1
               /\ UNCHANGED <<pc, j, block_type, start_line_no>>
    /\ UNCHANGED <<prog, interactive, lines, router_lsas, network_lsas, summary_lsas,
                   skipped, stdout_warn, skipped_lsas, output>>
    /\ UNCHANGED hvars

\* parse_file, lines 49-50: the loop is over; flush the last block
parse_file_EndOfInput ==
    /\ prog = "v111" /\ pc = "scan" /\ i > Len(lines)
    /\ IF block_lines # <<>>
       THEN pc' = "block" /\ j' = 1
       ELSE pc' = "export" /\ j' = j
    /\ UNCHANGED <<prog, interactive, lines, i, block_type, block_lines, start_line_no,
                   router_lsas, network_lsas, summary_lsas, skipped, stdout_warn,
                   skipped_lsas, output>>
    /\ UNCHANGED hvars

\* _process_block returns: lines 31-33 (37-39, 43-45) and 47 in the loop, line 52 after it
parse_file_BlockReturn ==
    /\ prog = "v111" /\ pc = "block" /\ BlockDone
    /\ IF i <= Len(lines)
       THEN /\ block_type' = HeaderKind(lines[i], block_type)
            /\ start_line_no' = i
            /\ block_lines' = <<lines[i]>>
            /\ i' = i + 1
            /\ pc' = "scan"
       ELSE pc' = "export" /\ UNCHANGED <<i, block_type, block_lines, start_line_no>>
    /\ UNCHANGED <<prog, interactive, lines, j, router_lsas, network_lsas, summary_lsas,
                   skipped, stdout_warn, skipped_lsas, output>>
    /\ UNCHANGED hvars

\* _process_block, block_type == "ROUTER"
process_block_ROUTER ==
    /\ prog = "v111" /\ pc = "block" /\ block_type = "ROUTER" /\ j = 1
    /\ j' = 2
    /\ IF RouterIdRaises(block_lines)
       THEN pc' = "crashed" /\ UNCHANGED <<router_lsas, skipped_lsas>>
       ELSE LET router_id == LastRouterId(block_lines)
            IN /\ pc' = pc
               /\ IF router_id # ""
                  THEN /\ router_lsas' = Append(router_lsas,
                             [router_id |-> router_id, area_id |-> "unknown",
                              links |-> ConnectedLinks(block_lines)])
                       /\ UNCHANGED skipped_lsas
                  ELSE /\ skipped_lsas' = Append(skipped_lsas,
                             [type |-> "Router",
                              lines |-> [k \in 1..Len(block_lines) |-> start_line_no + k - 1],
                              reason |-> "Missing router ID"])
                       /\ UNCHANGED router_lsas
    /\ UNCHANGED <<prog, interactive, lines, i, block_type, block_lines, start_line_no,
                   network_lsas, summary_lsas, skipped, stdout_warn, output>>
    /\ UNCHANGED hvars

\* _process_block, block_type == "NETWORK": one iteration over block_lines[1:]
process_block_NETWORK ==
    /\ prog = "v111" /\ pc = "block" /\ block_type = "NETWORK" /\ ~BlockDone
    /\ j' = j + 1
    /\ LET parts == block_lines[j + 1]
       IN IF parts = <<>>
          THEN UNCHANGED network_lsas
          ELSE network_lsas' = Append(network_lsas,
                   IF Len(parts) >= 2
                   THEN [network_id |-> parts[1], attached |-> parts[2]]
                   ELSE [network_id |-> "Network", attached |-> "unknown"])
    /\ UNCHANGED <<prog, interactive, lines, i, pc, block_type, block_lines, start_line_no,
                   router_lsas, summary_lsas, skipped, stdout_warn, skipped_lsas, output>>
    /\ UNCHANGED hvars

\* _process_block, block_type == "SUMMARY": one iteration over block_lines[1:];
\* int(metric) raising ValueError ends the program
process_block_SUMMARY ==
    /\ prog = "v111" /\ pc = "block" /\ block_type = "SUMMARY" /\ ~BlockDone
    /\ j' = j + 1
    /\ LET parts == block_lines[j + 1]
       IN IF parts = <<>>
          THEN UNCHANGED <<pc, summary_lsas>>
          ELSE IF Len(parts) >= 6
               THEN IF IntParses(parts[Len(parts)])
                    THEN /\ summary_lsas' = Append(summary_lsas,
                               [link_id |-> parts[1], adv_router |-> parts[2],
                                metric |-> IntOf(parts[Len(parts)])])
                         /\ pc' = pc
                    ELSE pc' = "crashed" /\ UNCHANGED summary_lsas
               ELSE /\ summary_lsas' = Append(summary_lsas,
                          [link_id |-> "Link", adv_router |-> "ID", metric |-> 20])
                    /\ pc' = pc
    /\ UNCHANGED <<prog, interactive, lines, i, block_type, block_lines, start_line_no,
                   router_lsas, network_lsas, skipped, stdout_warn, skipped_lsas, output>>
    /\ UNCHANGED hvars

\* _write_output
write_output ==
    /\ prog = "v111" /\ pc = "export"
    /\ output' = <<[router_lsas |-> router_lsas, network_lsas |-> network_lsas,
                    summary_lsas |-> summary_lsas, skipped_lsas |-> skipped_lsas]>>
    /\ pc' = "done"
    /\ UNCHANGED <<prog, interactive, lines, i, j, block_type, block_lines, start_line_no,
                   router_lsas, network_lsas, summary_lsas, skipped, stdout_warn,
                   skipped_lsas>>
    /\ UNCHANGED hvars

(***************************************************************************)
(* The parsers' specification                                              *)
(***************************************************************************)
HIdle ==
    /\ data = [k \in {} |-> <<>>]
    /\ node_map = [k \in {} |-> ""]
    /\ ghost_count = 1
    /\ nodes = <<>>
    /\ edges = <<>>
    /\ hpc = "idle"
    /\ hidx = 1

\* OspfParser.__init__ of either parser, and the file read
Init ==
    /\ prog \in {"v110", "v111"}
    /\ interactive \in (IF prog = "v110" THEN BOOLEAN ELSE {FALSE})
    /\ lines \in Inputs
    /\ i = 1
    /\ pc = "scan"
    /\ j = 1
    /\ block_type = "None"
    /\ block_lines = <<>>
    /\ start_line_no = 0
    /\ router_lsas = <<>>
    /\ network_lsas = <<>>
    /\ summary_lsas = <<>>
    /\ skipped = 0
    /\ stdout_warn = <<>>
    /\ skipped_lsas = <<>>
    /\ output = <<>>
    /\ HIdle

Next ==
    \/ parse_ReadLine
    \/ parse_EndOfInput
    \/ parse_BlockReturn
    \/ parse_router_block
    \/ parse_network_block
    \/ parse_summary_block
    \/ export_json
    \/ parse_file_ReadLine
    \/ parse_file_EndOfInput
    \/ parse_file_BlockReturn
    \/ process_block_ROUTER
    \/ process_block_NETWORK
    \/ process_block_SUMMARY
    \/ write_output

Spec == Init /\ [][Next]_vars

(***************************************************************************)
(* ospf_html_v1.14.py                                                      *)
(*                                                                         *)
(* A JSON value is tagged with its Python type: None, str, int, list,      *)
(* dict.  A record of the document (one LSA) is a function from its keys   *)
(* to tagged values.                                                       *)
(***************************************************************************)
None == [t |-> "none"]
S(s) == [t |-> "str", v |-> s]
N(n) == [t |-> "num", v |-> n]
L(q) == [t |-> "list", v |-> q]
D(f) == [t |-> "dict", v |-> f]

\* d.get(k)
Get(d, k) == IF k \in DOMAIN d THEN d[k] ELSE None

\* d.get(k, [])
GetList(d, k) == IF k \in DOMAIN d THEN d[k] ELSE L(<<>>)

\* bool(x)
Truthy(x) ==
    CASE x.t = "none" -> FALSE
      [] x.t = "str" -> x.v # ""
      [] x.t = "num" -> x.v # 0
      [] x.t = "list" -> x.v # <<>>
      [] x.t = "dict" -> DOMAIN x.v # {}

\* an or that passes over None alone
Or_SkipNone(a, b) == IF a.t # "none" THEN a ELSE b

\* a or b
Or(a, b) == IF Truthy(a) THEN a ELSE b

\* str(x); the repr of a dict or a list is not spelled out
StrOf(x) ==
    CASE x.t = "str" -> x.v
      [] x.t = "none" -> "None"
      [] x.t = "num" -> ToString(x.v)
      [] x.t = "dict" -> "{...}"
      [] x.t = "list" -> "[...]"

\* _normalize_schema, lines 41-45: one element of links
NormalizeLink(l) ==
    IF l.t = "dict"
    THEN Or(Or(Get(l.v, "link_id"), Get(l.v, "link")), S(StrOf(l)))
    ELSE S(StrOf(l))

\* _normalize_schema, lines 36-46: one router
NormalizeRouter(r) ==
    LET links == GetList(r, "links").v
    IN [router_id |-> Or(Or(Get(r, "router_id"), Get(r, "router")), Get(r, "id")),
        links |-> L([k \in 1..Len(links) |-> NormalizeLink(links[k])])]

\* _normalize_schema, lines 52-62: one network
NormalizeNetwork(n) ==
    LET attached == Or(Get(n, "attached_routers"), Get(n, "attached"))
    IN [network_id |-> Or(Get(n, "network_id"), Get(n, "network")),
        attached_routers |-> IF attached.t = "list" THEN attached
                             ELSE IF attached.t = "none" THEN L(<<>>)
                             ELSE L(<<attached>>)]

\* _normalize_schema, lines 68-72: one summary
NormalizeSummary(s) ==
    [link |-> Or(Or(Or(Get(s, "link_id"), Get(s, "link")), Get(s, "prefix")),
                 Get(s, "adv_router")),
     adv_router |-> Or(Or(Get(s, "adv_router"), Get(s, "adv")),
                       Get(s, "advertising_router"))]

MapSeq(f(_), q) == [k \in 1..Len(q) |-> f(q[k])]

\* self.data[key] = value
SetKey(d, key, value) ==
    [k \in DOMAIN d \cup {key} |-> IF k = key THEN value ELSE d[k]]

\* _normalize_schema that rebuilds the three lists whether or not the parser's
\* keys are in the document
normalize_schema_Rebuild(d) ==
    [routers |-> MapSeq(NormalizeRouter, IF "router_lsas" \in DOMAIN d THEN d["router_lsas"] ELSE <<>>),
     networks |-> MapSeq(NormalizeNetwork, IF "network_lsas" \in DOMAIN d THEN d["network_lsas"] ELSE <<>>),
     summary |-> MapSeq(NormalizeSummary, IF "summary_lsas" \in DOMAIN d THEN d["summary_lsas"] ELSE <<>>)]

\* _normalize_schema
normalize_schema(d) ==
    LET d1 == IF "router_lsas" \in DOMAIN d
              THEN SetKey(d, "routers", MapSeq(NormalizeRouter, d["router_lsas"]))
              ELSE d
        d2 == IF "network_lsas" \in DOMAIN d1
              THEN SetKey(d1, "networks", MapSeq(NormalizeNetwork, d1["network_lsas"]))
              ELSE d1
    IN IF "summary_lsas" \in DOMAIN d2
       THEN SetKey(d2, "summary", MapSeq(NormalizeSummary, d2["summary_lsas"]))
       ELSE d2

\* self.data.get(key, [])
DataList(d, key) == IF key \in DOMAIN d THEN d[key] ELSE <<>>

\* f"vNode{self.ghost_count}"
GhostId(n) == "vNode" \o ToString(n)

\* the generator's graph state, passed through the helpers below
Graph == [node_map |-> node_map, ghost_count |-> ghost_count, nodes |-> nodes,
          edges |-> edges]

\* self.net_vis.add_node(id, ...): pyvis keeps the first node added under an id
net_add_node(g, id, kind) ==
    IF \E k \in 1..Len(g.nodes) : g.nodes[k].id = id
    THEN g
    ELSE [g EXCEPT !.nodes = Append(@, [id |-> id, kind |-> kind])]

\* add_edge that keeps one edge per ordered pair
net_add_edge_Dedup(g, from, to) ==
    IF \E k \in 1..Len(g.edges) : g.edges[k] = <<from, to>>
    THEN g
    ELSE [g EXCEPT !.edges = Append(@, <<from, to>>)]

\* self.net_vis.add_edge(from, to): the graph is directed, every edge is kept
net_add_edge(g, from, to) == [g EXCEPT !.edges = Append(@, <<from, to>>)]

\* create_ghost_node without the increment of ghost_count
create_ghost_node_NoIncrement(g) ==
    LET ghost_id == GhostId(g.ghost_count)
        g1 == [g EXCEPT !.node_map = (ghost_id :> ghost_id) @@ @]
    IN [g |-> net_add_node(g1, ghost_id, "Ghost"), id |-> ghost_id]

\* create_ghost_node: the new graph state and the id returned
create_ghost_node(g) ==
    LET ghost_id == GhostId(g.ghost_count)
        g1 == [g EXCEPT !.ghost_count = @ + 1,
                        !.node_map = (ghost_id :> ghost_id) @@ @]
    IN [g |-> net_add_node(g1, ghost_id, "Ghost"), id |-> ghost_id]

\* get_node that hands the reference back unresolved
get_node_Unresolved(g, x) == [g |-> g, id |-> x.v]

\* get_node without the lookup in node_map
get_node_NoLookup(g, x) == create_ghost_node(g)

\* get_node(node_id)
get_node(g, x) ==
    IF x.t = "str" /\ x.v \in DOMAIN g.node_map
    THEN [g |-> g, id |-> g.node_map[x.v]]
    ELSE create_ghost_node(g)

\* x or self.create_ghost_node()
OrGhost(g, x) == IF Truthy(x) THEN [g |-> g, id |-> x.v] ELSE create_ghost_node(g)

\* add_nodes adding the node without the entry in node_map
RegisterPrimary_NodeOnly(g, x, kind) ==
    LET r == OrGhost(g, x)
    IN net_add_node(r.g, r.id, kind)

\* add_nodes, lines 86-92 (95-101, 104-110): register one record's primary id
RegisterPrimary(g, x, kind) ==
    LET r == OrGhost(g, x)
        g2 == IF r.id \in DOMAIN r.g.node_map
              THEN r.g
              ELSE [r.g EXCEPT !.node_map = (r.id :> r.id) @@ @]
        node_id == IF r.id \in DOMAIN r.g.node_map THEN r.g.node_map[r.id] ELSE r.id
    IN net_add_node(g2, node_id, kind)

\* add_edges, lines 131-133: the loop over one router's links
RECURSIVE LinkEdges(_, _, _)
LinkEdges(g, rid, links) ==
    IF links = <<>> THEN g
    ELSE LET target == OrGhost(g, Head(links))
             n == get_node(target.g, S(target.id))
         IN LinkEdges(net_add_edge(n.g, rid, n.id), rid, Tail(links))

\* add_edges, lines 129-133: one router
RouterEdges(g, router) ==
    LET r == OrGhost(g, Get(router, "router_id"))
    IN LinkEdges(r.g, r.id, GetList(router, "links").v)

\* add_edges, lines 139-140: the loop over one network's attached routers
RECURSIVE AttachedEdges(_, _, _)
AttachedEdges(g, nid, attached_list) ==
    IF attached_list = <<>> THEN g
    ELSE LET a == get_node(g, Head(attached_list))
             n == get_node(a.g, S(nid))
         IN AttachedEdges(net_add_edge(n.g, a.id, n.id), nid, Tail(attached_list))

\* add_edges, lines 137-140: one network
NetworkEdges(g, network) ==
    LET r == OrGhost(g, Get(network, "network_id"))
    IN AttachedEdges(r.g, r.id, GetList(network, "attached_routers").v)

\* add_edges, lines 144-146: one summary
SummaryEdges(g, summary) ==
    LET link == OrGhost(g, Get(summary, "link"))
        adv == OrGhost(link.g, Get(summary, "adv_router"))
        a == get_node(adv.g, S(adv.id))
        b == get_node(a.g, S(link.id))
    IN net_add_edge(b.g, a.id, b.id)

\* the loops of add_nodes and add_edges, in program order, and the list each runs over
Phases == <<"nodes_routers", "nodes_networks", "nodes_summary",
            "edges_routers", "edges_networks", "edges_summary">>

PhaseKey(p) ==
    CASE p \in {"nodes_routers", "edges_routers"} -> "routers"
      [] p \in {"nodes_networks", "edges_networks"} -> "networks"
      [] p \in {"nodes_summary", "edges_summary"} -> "summary"

\* the next loop iteration at or after iteration k of loop number n: loops with
\* nothing left are passed over, and after the last loop comes net_vis.show
RECURSIVE Advance(_, _, _)
Advance(d, n, k) ==
    IF n > Len(Phases) THEN [hpc |-> "show", hidx |-> 1]
    ELSE IF k <= Len(DataList(d, PhaseKey(Phases[n]))) THEN [hpc |-> Phases[n], hidx |-> k]
         ELSE Advance(d, n + 1, 1)

PhaseNo(p) == CHOOSE n \in 1..Len(Phases) : Phases[n] = p

\* the helpers' graph state becomes the generator's
SetGraph(g) ==
    /\ node_map' = g.node_map
    /\ ghost_count' = g.ghost_count
    /\ nodes' = g.nodes
    /\ edges' = g.edges

\* the loop position moves to the iteration after hidx
Step(d) ==
    LET a == Advance(d, PhaseNo(hpc), hidx + 1)
    IN hpc' = a.hpc /\ hidx' = a.hidx

\* add_nodes, line 83
add_nodes_normalize ==
    /\ prog = "html" /\ hpc = "add_nodes"
    /\ data' = normalize_schema(data)
    /\ LET a == Advance(data', 1, 1)
       IN hpc' = a.hpc /\ hidx' = a.hidx
    /\ UNCHANGED <<node_map, ghost_count, nodes, edges>>
    /\ UNCHANGED pvars

\* add_nodes, lines 85-92: one router
add_nodes_router ==
    /\ prog = "html" /\ hpc = "nodes_routers"
    /\ SetGraph(RegisterPrimary(Graph, Get(data["routers"][hidx], "router_id"), "Router"))
    /\ Step(data)
    /\ UNCHANGED data
    /\ UNCHANGED pvars

\* add_nodes, lines 94-101: one network
add_nodes_network ==
    /\ prog = "html" /\ hpc = "nodes_networks"
    /\ SetGraph(RegisterPrimary(Graph, Get(data["networks"][hidx], "network_id"), "Network"))
    /\ Step(data)
    /\ UNCHANGED data
    /\ UNCHANGED pvars

\* add_nodes, lines 103-110: one summary
add_nodes_summary ==
    /\ prog = "html" /\ hpc = "nodes_summary"
    /\ SetGraph(RegisterPrimary(Graph, Get(data["summary"][hidx], "link"), "Summary"))
    /\ Step(data)
    /\ UNCHANGED data
    /\ UNCHANGED pvars

\* add_edges, lines 128-133: one router
add_edges_router ==
    /\ prog = "html" /\ hpc = "edges_routers"
    /\ SetGraph(RouterEdges(Graph, data["routers"][hidx]))
    /\ Step(data)
    /\ UNCHANGED data
    /\ UNCHANGED pvars

\* add_edges, lines 136-140: one network
add_edges_network ==
    /\ prog = "html" /\ hpc = "edges_networks"
    /\ SetGraph(NetworkEdges(Graph, data["networks"][hidx]))
    /\ Step(data)
    /\ UNCHANGED data
    /\ UNCHANGED pvars

\* add_edges, lines 143-146: one summary
add_edges_summary ==
    /\ prog = "html" /\ hpc = "edges_summary"
    /\ SetGraph(SummaryEdges(Graph, data["summary"][hidx]))
    /\ Step(data)
    /\ UNCHANGED data
    /\ UNCHANGED pvars

\* generate_html_topology, lines 153-159: the graph goes to net_vis.show
generate_html_topology ==
    /\ prog = "html" /\ hpc = "show"
    /\ hpc' = "done"
    /\ UNCHANGED <<data, node_map, ghost_count, nodes, edges, hidx>>
    /\ UNCHANGED pvars

(***************************************************************************)
(* parsed_output.json: what json.dump writes and what json.load reads back *)
(***************************************************************************)
\* _export_json: asdict(r) of each dataclass, then json.dump
json_dump_v110(doc) ==
    [router_lsas |->
        [k \in 1..Len(doc.router_lsas) |->
            LET r == doc.router_lsas[k]
            IN [router_id |-> S(r.router_id), area_id |-> S(r.area_id),
                links |-> L([n \in 1..Len(r.links) |->
                               D([link_id |-> S(r.links[n].link_id),
                                  metric |-> N(r.links[n].metric)])])]],
     network_lsas |->
        [k \in 1..Len(doc.network_lsas) |->
            LET r == doc.network_lsas[k]
            IN [network_id |-> S(r.network_id),
                attached_routers |-> L([n \in 1..Len(r.attached_routers) |->
                                          S(r.attached_routers[n])]),
                area_id |-> S(r.area_id)]],
     summary_lsas |->
        [k \in 1..Len(doc.summary_lsas) |->
            LET r == doc.summary_lsas[k]
            IN [adv_router |-> S(r.adv_router), prefix |-> S(r.prefix),
                metric |-> N(r.metric), area_id |-> S(r.area_id)]]]

\* _write_output: json.dump of the four lists of dicts
json_dump_v111(doc) ==
    [router_lsas |->
        [k \in 1..Len(doc.router_lsas) |->
            LET r == doc.router_lsas[k]
            IN [router_id |-> S(r.router_id), area_id |-> S(r.area_id),
                links |-> L([n \in 1..Len(r.links) |-> S(r.links[n])])]],
     network_lsas |->
        [k \in 1..Len(doc.network_lsas) |->
            LET r == doc.network_lsas[k]
            IN [network_id |-> S(r.network_id), attached |-> S(r.attached)]],
     summary_lsas |->
        [k \in 1..Len(doc.summary_lsas) |->
            LET r == doc.summary_lsas[k]
            IN [link_id |-> S(r.link_id), adv_router |-> S(r.adv_router),
                metric |-> N(r.metric)]],
     skipped_lsas |->
        [k \in 1..Len(doc.skipped_lsas) |->
            LET r == doc.skipped_lsas[k]
            IN [type |-> S(r.type),
                lines |-> L([n \in 1..Len(r.lines) |-> N(r.lines[n])]),
                reason |-> S(r.reason)]]]

\* the JSON document in output/parsed_output.json
OutputJson ==
    IF prog = "v110" THEN json_dump_v110(output[1]) ELSE json_dump_v111(output[1])

\* json.load: the Python value of a JSON value
RECURSIVE json_value(_)
json_value(x) ==
    CASE x.t \in {"str", "num"} -> x.v
      [] x.t = "list" -> [k \in 1..Len(x.v) |-> json_value(x.v[k])]
      [] x.t = "dict" -> [f \in DOMAIN x.v |-> json_value(x.v[f])]
      [] x.t = "none" -> "None"

\* json.load of a document: lists of objects under its keys
json_load(doc) ==
    [key \in DOMAIN doc |->
        [k \in 1..Len(doc[key]) |->
            [f \in DOMAIN doc[key][k] |-> json_value(doc[key][k][f])]]]

(***************************************************************************)
(* Input documents of the generator                                        *)
(***************************************************************************)
MaxRecs == 3

\* records of a document in the shape {routers, networks, summary}
PoolB ==
    <<[kind |-> "routers", rec |-> [router_id |-> S("A"), links |-> L(<<S("B")>>)]],
      [kind |-> "routers", rec |-> [router_id |-> S("B"), links |-> L(<<S("A"), S("X")>>)]],
      [kind |-> "routers", rec |-> [router_id |-> S("A"), links |-> L(<<S("X"), S("X")>>)]],
      [kind |-> "routers", rec |-> [router_id |-> S(""), links |-> L(<<>>)]],
      [kind |-> "routers", rec |-> [links |-> L(<<S("")>>)]],
      [kind |-> "networks", rec |-> [network_id |-> S("B"), attached_routers |-> L(<<S("A")>>)]],
      [kind |-> "networks", rec |-> [network_id |-> S("N"), attached_routers |-> L(<<S("A"), S("X")>>)]],
      [kind |-> "networks", rec |-> [network_id |-> None, attached_routers |-> L(<<S("A")>>)]],
      [kind |-> "summary", rec |-> [link |-> S("P"), adv_router |-> S("A")]],
      [kind |-> "summary", rec |-> [link |-> S("N"), adv_router |-> S("X")]],
      [kind |-> "summary", rec |-> [link |-> S(""), adv_router |-> S("")]],
      [kind |-> "summary", rec |-> [link |-> S("vNode1"), adv_router |-> S("A")]],
      [kind |-> "routers", rec |-> [router_id |-> S("A"), links |-> L(<<S("X"), S("vNode1")>>)]],
      [kind |-> "routers", rec |-> [router_id |-> S("A"), links |-> L(<<S("vNode1"), S("vNode1")>>)]]>>

\* records of a document in the shape {router_lsas, network_lsas, summary_lsas}:
\* what ospf_parser.py writes, what ospf_parser_v1.11.py writes, and the other
\* key names _normalize_schema accepts
PoolA ==
    <<[kind |-> "router_lsas",
       rec |-> [router_id |-> S("A"), area_id |-> S("0"),
                links |-> L(<<D([link_id |-> S("B"), metric |-> N(64)])>>)]],
      [kind |-> "router_lsas",
       rec |-> [router_id |-> S("ID"), area_id |-> S("unknown"),
                links |-> L(<<S("Link connected to B")>>)]],
      [kind |-> "router_lsas",
       rec |-> [router |-> S("B"), links |-> L(<<D([link |-> S("A")])>>)]],
      [kind |-> "router_lsas",
       rec |-> [router_id |-> S(""), id |-> S("A"),
                links |-> L(<<D([metric |-> N(5)]), None>>)]],
      [kind |-> "network_lsas",
       rec |-> [network_id |-> S("B"), attached_routers |-> L(<<S("A")>>),
                area_id |-> S("0")]],
      [kind |-> "network_lsas", rec |-> [network_id |-> S("B"), attached |-> S("A")]],
      [kind |-> "network_lsas", rec |-> [network |-> S("N")]],
      [kind |-> "summary_lsas",
       rec |-> [adv_router |-> S("A"), prefix |-> S("P"), metric |-> N(1),
                area_id |-> S("0")]],
      [kind |-> "summary_lsas",
       rec |-> [link_id |-> S("P"), adv_router |-> S("A"), metric |-> N(7)]],
      [kind |-> "summary_lsas", rec |-> [adv |-> S("A")]]>>

\* the records of kind `kind` among pool[ix[1]], pool[ix[2]], ..., in that order
RECURSIVE RecordsOf(_, _, _)
RecordsOf(pool, ix, kind) ==
    IF ix = <<>> THEN <<>>
    ELSE (IF pool[Head(ix)].kind = kind THEN <<pool[Head(ix)].rec>> ELSE <<>>)
         \o RecordsOf(pool, Tail(ix), kind)

DocB(ix) ==
    [routers |-> RecordsOf(PoolB, ix, "routers"),
     networks |-> RecordsOf(PoolB, ix, "networks"),
     summary |-> RecordsOf(PoolB, ix, "summary")]

DocA(ix) ==
    [router_lsas |-> RecordsOf(PoolA, ix, "router_lsas"),
     network_lsas |-> RecordsOf(PoolA, ix, "network_lsas"),
     summary_lsas |-> RecordsOf(PoolA, ix, "summary_lsas")]

Docs ==
    {DocB(ix) : ix \in SeqsUpTo(1..Len(PoolB), MaxRecs)}
    \cup {DocA(ix) : ix \in SeqsUpTo(1..Len(PoolA), MaxRecs)}

\* OSPFHtmlGenerator.__init__ and load_json
HInit ==
    /\ prog = "html"
    /\ interactive = FALSE
    /\ lines = <<>>
    /\ i = 1
    /\ pc = "idle"
    /\ j = 1
    /\ block_type = "None"
    /\ block_lines = <<>>
    /\ start_line_no = 0
    /\ router_lsas = <<>>
    /\ network_lsas = <<>>
    /\ summary_lsas = <<>>
    /\ skipped = 0
    /\ stdout_warn = <<>>
    /\ skipped_lsas = <<>>
    /\ output = <<>>
    /\ data \in Docs
    /\ node_map = [k \in {} |-> ""]
    /\ ghost_count = 1
    /\ nodes = <<>>
    /\ edges = <<>>
    /\ hpc = "add_nodes"
    /\ hidx = 1

HNext ==
    \/ add_nodes_normalize
    \/ add_nodes_router
    \/ add_nodes_network
    \/ add_nodes_summary
    \/ add_edges_router
    \/ add_edges_network
    \/ add_edges_summary
    \/ generate_html_topology

SpecHtml == HInit /\ [][HNext]_vars

(***************************************************************************)
(* Properties                                                              *)
(***************************************************************************)
\* the tokens of line k of the block being extracted
BlockTokens(k) == IF prog = "v110" THEN block_lines[k].line ELSE block_lines[k]

\* the data line the extraction loop of a Network or Summary block is at
DataTokens == BlockTokens(j + 1)

\* the number of malformed records met so far
MalformedCount == IF prog = "v110" THEN skipped ELSE Len(skipped_lsas)

\* type and reason of the malformed record reported last
LastMalformed ==
    IF prog = "v110" THEN stdout_warn[Len(stdout_warn)]
    ELSE [type |-> skipped_lsas[Len(skipped_lsas)].type,
          reason |-> skipped_lsas[Len(skipped_lsas)].reason]

InRouter == block_type \in {"router", "ROUTER"}
InNetwork == block_type \in {"network", "NETWORK"}
InSummary == block_type \in {"summary", "SUMMARY"}

IsSummaryHeader(line) ==
    \/ Contains(LowerLine(line), <<"summary", "net", "link", "states">>)
    \/ Contains(LowerLine(line), <<"summary", "net", "lsas">>)

IsNetworkHeader(line) ==
    \/ Contains(line, <<"Network", "Link", "States">>)
    \/ Contains(line, <<"Net", "Link", "States">>)
    \/ Contains(line, <<"Network", "LSAs">>)

\* the scanning loop has just consumed line i
Consumed == i' = i + 1

\* C1: parsing "OSPF Router with ID (10.0.0.1)" / "Router Link States (Area 0)" /
\* "10.0.0.2 64" yields exactly one RouterLSA, with router_id "10.0.0.1", area_id
\* "0" and the single link {link_id "10.0.0.2", metric 64}, and no malformed record.
C1_Scenario ==
    (lines = <<LRid, LRls, LLink>> /\ pc = "done")
    => /\ MalformedCount = 0
       /\ Len(router_lsas) = 1
       /\ router_lsas[1].router_id = "10.0.0.1"
       /\ router_lsas[1].area_id = "0"
       /\ router_lsas[1].links = <<[link_id |-> "10.0.0.2", metric |-> 64]>>

\* C2: once the decision hook has answered abort the run is over, and every
\* record accumulated before the abort is in the serialized output.
C2_AbortEmitsRecords ==
    (pc = "exited" /\ Len(router_lsas) + Len(network_lsas) + Len(summary_lsas) > 0)
    => output = <<[router_lsas |-> router_lsas, network_lsas |-> network_lsas,
                   summary_lsas |-> summary_lsas]>>

\* C3: from every segmenter state, a line containing "Summary Net Link States"
\* or "Summary Net LSAs", in any letter case, moves the segmenter to SUMMARY.
C3_SummaryHeader ==
    [][(Consumed /\ IsSummaryHeader(lines[i])) => InSummary']_vars

\* C4: a "Link ID" line read in state ROUTER flushes nothing and stays in the
\* Router block; read in any other state it flushes the prior block and moves
\* the segmenter to NETWORK.
C4_LinkIdByState ==
    [][(Consumed /\ Contains(lines[i], <<"Link", "ID">>))
       => IF InRouter
          THEN /\ pc = "scan"
               /\ block_type' = block_type
               /\ Len(block_lines') = Len(block_lines) + 1
          ELSE InNetwork' /\ Len(block_lines') = 1]_vars

\* C5: from every segmenter state, ROUTER included, a line containing "Network
\* Link States", "Net Link States" or "Network LSAs" (and no Summary header)
\* flushes the prior block and moves the segmenter to NETWORK.
C5_NetworkHeader ==
    [][(Consumed /\ IsNetworkHeader(lines[i]) /\ ~IsSummaryHeader(lines[i]))
       => (InNetwork' /\ Len(block_lines') = 1)]_vars

\* no line of the block being extracted contains "Router with ID"
NoRouterWithId ==
    \A k \in 1..Len(block_lines) :
        ~Contains(LowerLine(BlockTokens(k)), <<"router", "with", "id">>)

\* C6: extracting a Router block in which no line matches "Router with ID"
\* increases the malformed count by exactly one, with reason "Missing router
\* ID", appends no RouterLSA and leaves the Network and Summary lists unchanged.
C6_MissingRouterId ==
    [][(pc = "block" /\ InRouter /\ j = 1 /\ j' = 2 /\ NoRouterWithId)
       => /\ MalformedCount' = MalformedCount + 1
          /\ LastMalformed' = [type |-> "Router", reason |-> "Missing router ID"]
          /\ UNCHANGED <<router_lsas, network_lsas, summary_lsas>>]_vars

\* C6, witness: a Router block without "Router with ID" has been extracted
C6_Witness ==
    /\ pc = "block" /\ InRouter /\ j = 2 /\ NoRouterWithId
    /\ Len(block_lines) >= 2
    /\ MalformedCount = 1
    /\ router_lsas = <<>>

\* the extraction loop of a Network (Summary) block works on a non-blank data
\* line that is no "Link ID" column header
DataStep ==
    /\ pc = "block" /\ j' = j + 1
    /\ DataTokens # <<>>
    /\ ~Contains(DataTokens, <<"Link", "ID">>)

\* C7: in a Network block, a data line with fewer than 2 tokens yields exactly
\* one MalformedRecord {Network, "Insufficient columns"} and no NetworkLSA, and
\* a line with at least 2 tokens, also after such a line, yields its NetworkLSA.
C7_NetworkPerLine ==
    [][(InNetwork /\ DataStep)
       => IF Len(DataTokens) < 2
          THEN /\ MalformedCount' = MalformedCount + 1
               /\ LastMalformed' = [type |-> "Network", reason |-> "Insufficient columns"]
               /\ network_lsas' = network_lsas
          ELSE /\ Len(network_lsas') = Len(network_lsas) + 1
               /\ network_lsas'[Len(network_lsas')].network_id = DataTokens[1]
               /\ MalformedCount' = MalformedCount]_vars

\* prefix of a SummaryLSA, under either parser's key
PrefixOf(r) == IF "prefix" \in DOMAIN r THEN r.prefix ELSE r.link_id

\* C8: in a Summary block, a data line with fewer than 3 tokens yields exactly
\* one MalformedRecord {Summary, "Insufficient columns"} and no SummaryLSA, and
\* a line with at least 3 tokens yields exactly one SummaryLSA whose prefix is
\* token 0 and whose adv_router is token 1.
C8_SummaryPerLine ==
    [][(InSummary /\ DataStep)
       => IF Len(DataTokens) < 3
          THEN /\ MalformedCount' = MalformedCount + 1
               /\ LastMalformed' = [type |-> "Summary", reason |-> "Insufficient columns"]
               /\ summary_lsas' = summary_lsas
          ELSE /\ Len(summary_lsas') = Len(summary_lsas) + 1
               /\ PrefixOf(summary_lsas'[Len(summary_lsas')]) = DataTokens[1]
               /\ summary_lsas'[Len(summary_lsas')].adv_router = DataTokens[2]
               /\ MalformedCount' = MalformedCount]_vars

\* C9: unless the decision hook answers abort, a failure while extracting a
\* block does not stop the run: it ends with every line read and the
\* serialized output written.
C9_FailureStaysInBlock ==
    (pc \notin {"scan", "block", "export", "exited"})
    => (i > Len(lines) /\ output # <<>>)

\* every record of the normalized document has a non-empty primary identifier
AllPrimariesPresent(d) ==
    /\ \A k \in 1..Len(DataList(d, "routers")) : Truthy(Get(d["routers"][k], "router_id"))
    /\ \A k \in 1..Len(DataList(d, "networks")) : Truthy(Get(d["networks"][k], "network_id"))
    /\ \A k \in 1..Len(DataList(d, "summary")) : Truthy(Get(d["summary"][k], "link"))

\* the primary identifiers the normalized document declares
DeclaredIds(d) ==
    {Get(d["routers"][k], "router_id") : k \in 1..Len(DataList(d, "routers"))}
    \cup {Get(d["networks"][k], "network_id") : k \in 1..Len(DataList(d, "networks"))}
    \cup {Get(d["summary"][k], "link") : k \in 1..Len(DataList(d, "summary"))}

\* the references of the normalized document: link targets, attached routers, adv_routers
References(d) ==
    UNION {{GetList(d["routers"][k], "links").v[n] :
              n \in 1..Len(GetList(d["routers"][k], "links").v)} :
           k \in 1..Len(DataList(d, "routers"))}
    \cup UNION {{GetList(d["networks"][k], "attached_routers").v[n] :
                   n \in 1..Len(GetList(d["networks"][k], "attached_routers").v)} :
                k \in 1..Len(DataList(d, "networks"))}
    \cup {Get(d["summary"][k], "adv_router") : k \in 1..Len(DataList(d, "summary"))}

\* every reference is non-empty and is the primary identifier of some record
AllReferencesDeclared(d) ==
    \A x \in References(d) : Truthy(x) /\ x \in DeclaredIds(d)

\* add_nodes and add_edges have run
GraphBuilt == hpc \in {"show", "done"}

\* C10 as stated: where every record's primary identifier is present and
\* non-empty, the ghost counter is still 1 after add_nodes and add_edges.
C10_NoGhostWhenPrimariesPresent ==
    (GraphBuilt /\ AllPrimariesPresent(data)) => ghost_count = 1

\* C10, amended: where every record's primary identifier is present and
\* non-empty and every reference (link target, attached router, adv_router) is
\* non-empty and is the primary identifier of some record of the document, the
\* ghost counter is still 1 after add_nodes and add_edges, and no node is a ghost.
C10_NoGhostWhenClosed ==
    (GraphBuilt /\ AllPrimariesPresent(data) /\ AllReferencesDeclared(data))
    => /\ ghost_count = 1
       /\ \A k \in 1..Len(nodes) : nodes[k].kind # "Ghost"

\* C10, witness: a document with declared references has been built without a ghost
C10_Witness ==
    /\ hpc = "done"
    /\ AllPrimariesPresent(data) /\ AllReferencesDeclared(data)
    /\ Len(edges) >= 3
    /\ ghost_count = 1

\* the number n of the ghost id "vNode<n>" among those issued so far, 0 for another id
GhostNo(id) ==
    IF \E n \in 1..ghost_count : GhostId(n) = id
    THEN CHOOSE n \in 1..ghost_count : GhostId(n) = id
    ELSE 0

\* the Ghost nodes of the graph, in order of creation
GhostNodes == SelectSeq(nodes, LAMBDA n : n.kind = "Ghost")

\* the ghost ids issued so far are vNode1 .. vNode<ghost_count - 1>, each
\* registered in node_map, and the Ghost nodes carry them in increasing order
GhostsIncreasing ==
    /\ ghost_count >= 1
    /\ \A n \in 1..(ghost_count - 1) : GhostId(n) \in DOMAIN node_map
    /\ \A a \in 1..Len(GhostNodes) :
          /\ GhostNo(GhostNodes[a].id) \in 1..(ghost_count - 1)
          /\ \A b \in 1..Len(GhostNodes) :
                a < b => GhostNo(GhostNodes[a].id) < GhostNo(GhostNodes[b].id)

\* C11: across one run of the graph builder the ghost counter never decreases,
\* and the ghost ids issued are pairwise distinct with strictly increasing
\* numeric suffixes in order of creation, whichever record or reference
\* triggered the synthesis.
C11_GhostIdsIncrease ==
    /\ [](GhostsIncreasing)
    /\ [][ghost_count' >= ghost_count]_vars

\* C11, witness: ghosts were synthesized in add_nodes and in add_edges
C11_Witness ==
    /\ hpc = "done"
    /\ ghost_count >= 4
    /\ Len(GhostNodes) >= 3
    /\ Len(edges) >= 1

\* the ids of the nodes of the graph
NodeIds == {nodes[k].id : k \in 1..Len(nodes)}

\* C12: both endpoints of every edge are ids of nodes of the graph (declared
\* nodes or ghost nodes synthesized on demand), at every add_edge and so after
\* add_nodes followed by add_edges.
C12_EdgeEndpointsAreNodes ==
    \A k \in 1..Len(edges) : edges[k][1] \in NodeIds /\ edges[k][2] \in NodeIds

\* C12, witness: a built graph with an edge between declared nodes and an edge
\* that ends at a ghost synthesized for it
C12_Witness ==
    /\ hpc = "done"
    /\ \E k \in 1..Len(edges) :
          /\ GhostNo(edges[k][1]) = 0 /\ GhostNo(edges[k][2]) = 0
    /\ \E k \in 1..Len(edges) :
          \E n \in 1..Len(GhostNodes) : edges[k][2] = GhostNodes[n].id

\* the document holds one router, with a non-empty router_id, and no other record
OneRouterDoc(d) ==
    /\ Len(DataList(d, "routers")) = 1
    /\ Len(DataList(d, "networks")) = 0
    /\ Len(DataList(d, "summary")) = 0
    /\ Truthy(Get(d["routers"][1], "router_id"))

\* the link targets of router k of the document
LinksOf(d, k) == GetList(d["routers"][k], "links").v

\* C13: for a document holding one router with a non-empty router_id and k
\* links whose targets are declared by no record, the graph builder creates
\* exactly k ghost nodes and exactly k edges, the i-th edge going from the
\* router's node to the i-th ghost.
C13_GhostPerUndeclaredLink ==
    (/\ GraphBuilt
     /\ OneRouterDoc(data)
     /\ \A n \in 1..Len(LinksOf(data, 1)) : LinksOf(data, 1)[n] \notin DeclaredIds(data))
    => /\ Len(GhostNodes) = Len(LinksOf(data, 1))
       /\ Len(edges) = Len(LinksOf(data, 1))
       /\ \A n \in 1..Len(edges) :
             edges[n] = <<data["routers"][1].router_id.v, GhostNodes[n].id>>

\* the document is in the shape {routers, networks, summary}
IsCanonical(d) == DOMAIN d \subseteq {"routers", "networks", "summary"}

\* C14: normalizing a document that is already in the shape {routers,
\* networks, summary} leaves it equal to its input, and normalizing any
\* document a second time gives the result of the first normalization.
C14_NormalizeIdempotent ==
    [][hpc = "add_nodes"
       => /\ IsCanonical(data) => data' = data
          /\ normalize_schema(data') = data']_vars

\* C14, witness: a document in the parsers' shape has been normalized
C14_Witness ==
    /\ hpc # "add_nodes"
    /\ "router_lsas" \in DOMAIN data
    /\ Len(data["routers"]) >= 1
    /\ Len(data["networks"]) >= 1
    /\ Len(data["summary"]) >= 1

\* the in-memory records carry the canonical field names
CanonicalFieldNames ==
    /\ \A k \in 1..Len(router_lsas) :
          DOMAIN router_lsas[k] = {"router_id", "area_id", "links"}
    /\ \A k \in 1..Len(network_lsas) :
          DOMAIN network_lsas[k] = {"network_id", "attached_routers", "area_id"}
    /\ \A k \in 1..Len(summary_lsas) :
          DOMAIN summary_lsas[k] = {"adv_router", "prefix", "metric", "area_id"}

\* the reloaded output document holds the in-memory records, names and values
RoundTrip ==
    LET doc == json_load(OutputJson)
    IN /\ doc["router_lsas"] = router_lsas
       /\ doc["network_lsas"] = network_lsas
       /\ doc["summary_lsas"] = summary_lsas

\* C15: the parser's in-memory records carry the canonical field names
\* (router_id/area_id/links, network_id/attached_routers/area_id,
\* adv_router/prefix/metric/area_id), and serializing them to the output
\* document and reloading it gives a structure equal to them.
C15_RoundTripCanonical ==
    (pc = "done") => (CanonicalFieldNames /\ RoundTrip)

\* the step meets a malformed record: a Router block without router id, a
\* Network data line with fewer than 2 tokens, a Summary data line with fewer than 3
MeetsMalformed ==
    \/ pc = "block" /\ InRouter /\ j = 1 /\ j' = 2 /\ NoRouterWithId
    \/ InNetwork /\ DataStep /\ Len(DataTokens) < 2
    \/ InSummary /\ DataStep /\ Len(DataTokens) < 3

\* C16: the serialized output document has the keys router_lsas, network_lsas,
\* summary_lsas and skipped_lsas, and skipped_lsas holds one {type, lines,
\* reason} entry for each malformed record met during the run.
C16_SkippedLsasInOutput ==
    /\ [](pc = "done"
          => /\ DOMAIN OutputJson
                  = {"router_lsas", "network_lsas", "summary_lsas", "skipped_lsas"}
             /\ \A k \in 1..Len(OutputJson["skipped_lsas"]) :
                   DOMAIN OutputJson["skipped_lsas"][k] = {"type", "lines", "reason"})
    /\ [][MeetsMalformed => Len(skipped_lsas') = Len(skipped_lsas) + 1]_vars

\* a header line of a Router block: the "Router with ID" line, the "Router
\* Link States" line, a "Link ID" column header
IsRouterBlockHeader(line) ==
    \/ Contains(LowerLine(line), <<"router", "with", "id">>)
    \/ Contains(LowerLine(line), <<"router", "link", "states">>)
    \/ Contains(line, <<"Link", "ID">>)

\* the links of lines k.. of the block being extracted: one per non-header
\* line with at least 2 tokens, first token and numeric last token (else 0)
RECURSIVE LinksFrom(_)
LinksFrom(k) ==
    IF k > Len(block_lines) THEN <<>>
    ELSE LET t == BlockTokens(k)
         IN (IF ~IsRouterBlockHeader(t) /\ Len(t) >= 2
             THEN <<[link_id |-> t[1],
                     metric |-> IF IntParses(t[Len(t)]) THEN IntOf(t[Len(t)]) ELSE 0]>>
             ELSE <<>>)
            \o LinksFrom(k + 1)

\* C17: in a Router block with a router id, the links of the resulting
\* RouterLSA are exactly the block's non-header lines with at least 2 tokens,
\* in input order, each with the line's first token as link_id and its last
\* token as metric when that token is numeric, 0 otherwise.  (A link kept as
\* the raw text of its line is no {link_id, metric} pair: such a list agrees
\* only when both are empty.)
C17_RouterLinks ==
    [][(pc = "block" /\ InRouter /\ j = 1 /\ j' = 2
        /\ Len(router_lsas') = Len(router_lsas) + 1)
       => LET links == router_lsas'[Len(router_lsas')].links
          IN /\ Len(links) = Len(LinksFrom(1))
             /\ IF prog = "v110" THEN links = LinksFrom(1) ELSE links = <<>>]_vars

\* the first token of rest that parses as an integer
RECURSIVE FirstInt(_)
FirstInt(rest) ==
    IF rest = <<>> THEN [found |-> FALSE, value |-> 0]
    ELSE IF IntParses(Head(rest)) THEN [found |-> TRUE, value |-> IntOf(Head(rest))]
         ELSE FirstInt(Tail(rest))

\* the metric a parser gives a Summary record where it finds none in the line
MetricPlaceholder == IF prog = "v110" THEN 0 ELSE 20

\* C18: a Summary data line with at least 3 tokens yields a SummaryLSA without
\* an error; its metric is the first token after the first two that parses as
\* an integer, and the parser's fixed placeholder when no such token exists.
C18_SummaryMetric ==
    [][(/\ pc = "block" /\ InSummary /\ j' > j
        /\ Len(DataTokens) >= 3
        /\ ~Contains(DataTokens, <<"Link", "ID">>))
       => LET m == FirstInt(SubSeq(DataTokens, 3, Len(DataTokens)))
          IN /\ pc' = "block"
             /\ MalformedCount' = MalformedCount
             /\ Len(summary_lsas') = Len(summary_lsas) + 1
             /\ summary_lsas'[Len(summary_lsas')].metric
                  = IF m.found THEN m.value ELSE MetricPlaceholder]_vars

\* the segmenter, in state bt, reads the line as a header
IsHeaderIn(line, bt) ==
    IF prog = "v110" THEN DetectedType(line) # "None" ELSE HeaderKind(line, bt) # "None"

\* the block opened by the line, read in state None
OpenedBy(line) ==
    IF prog = "v110" THEN DetectedType(line) ELSE HeaderKind(line, "None")

\* the number of the first line of the current block
BlockStart ==
    IF prog = "v110" THEN block_lines[1].lineno
    ELSE IF block_type = "None" THEN 1 ELSE start_line_no

\* the current block is the run of lines from its first line to the last line
\* read (ospf_parser.py keeps the non-blank ones, with their numbers)
BlockIsRun ==
    IF prog = "v110"
    THEN block_lines # <<>>
         => LET nos == {k \in BlockStart..(i - 1) : lines[k] # <<>>}
            IN /\ Len(block_lines) = Cardinality(nos)
               /\ \A n \in 1..Len(block_lines) :
                     /\ block_lines[n].lineno \in nos
                     /\ block_lines[n].line = lines[block_lines[n].lineno]
                     /\ \A m \in 1..(n - 1) : block_lines[m].lineno < block_lines[n].lineno
    ELSE /\ Len(block_lines) = i - BlockStart
         /\ \A n \in 1..Len(block_lines) : block_lines[n] = lines[BlockStart + n - 1]

\* a block of some type starts at the header that opened it and holds no
\* other header
BlockHasOneHeader ==
    /\ (block_type # "None" /\ pc \in {"scan", "block"})
       => /\ block_lines # <<>>
          /\ OpenedBy(BlockTokens(1)) = block_type
    /\ \A n \in 1..Len(block_lines) :
          (n > 1 \/ block_type = "None") => ~IsHeaderIn(BlockTokens(n), block_type)

\* before the first recognized header nothing is produced
NothingBeforeFirstHeader ==
    block_type = "None"
    => /\ \A k \in 1..(i - 1) : ~IsHeaderIn(lines[k], "None")
       /\ prog = "v110" => block_lines = <<>>
       /\ router_lsas = <<>> /\ network_lsas = <<>> /\ summary_lsas = <<>>
       /\ MalformedCount = 0

\* the segmenter's step flushes when, and only when, it reads a header or the
\* end of input with a block at hand; after a flush the next block starts at
\* the header just read; the run goes on to the output with every line read
\* and no block left unflushed
FlushDiscipline ==
    /\ (pc = "scan" /\ pc' = "block")
       => /\ block_lines # <<>>
          /\ i > Len(lines) \/ IsHeaderIn(lines[i], block_type)
          /\ UNCHANGED <<block_lines, block_type, i>>
    /\ (/\ pc = "scan" /\ block_lines # <<>>
        /\ i > Len(lines) \/ IsHeaderIn(lines[i], block_type))
       => pc' = "block"
    /\ (pc = "block" /\ pc' = "scan")
       => /\ i' = i + 1
          /\ Len(block_lines') = 1
          /\ BlockStart' = i
    /\ (pc = "scan" /\ pc' = "export") => (i > Len(lines) /\ block_lines = <<>>)
    /\ (pc = "block" /\ pc' = "export") => i > Len(lines)

\* C19: the segmenter flushes every block exactly once and in input order: a
\* block is flushed when the next header line is read or at end of input, the
\* blocks are consecutive runs of lines, so that each non-blank line after the
\* first recognized header is in exactly one flushed block once the end of
\* input is reached, and lines before the first recognized header produce no
\* record and no malformed entry.
C19_SegmenterFlushes ==
    /\ [](BlockIsRun /\ BlockHasOneHeader /\ NothingBeforeFirstHeader)
    /\ [][FlushDiscipline]_vars

\* C19, witness: a run with a line before the first header and two blocks
\* flushed, the first at the second header and the second at end of input
C19_Witness ==
    /\ pc = "done"
    /\ Len(lines) = 3
    /\ lines[1] # <<>> /\ ~IsHeaderIn(lines[1], "None")
    /\ OpenedBy(lines[2]) \in {"router", "ROUTER"}
    /\ OpenedBy(lines[3]) \in {"summary", "SUMMARY"}
    /\ Len(router_lsas) = 1

\* the key of the primary identifier of the records under a key of the document
PrimaryKey(key) ==
    CASE key = "routers" -> "router_id"
      [] key = "networks" -> "network_id"
      [] key = "summary" -> "link"

\* record k under the key has an empty primary identifier
EmptyPrimary(key, k) == ~Truthy(Get(data[key][k], PrimaryKey(key)))

\* the number of records with an empty primary identifier up to record k of
\* the key, in the order of add_nodes: the ghost add_nodes registered for
\* record k is vNode<that number>
EmptyRank(key, k) ==
    LET upto(q, n) == Cardinality({m \in 1..n : EmptyPrimary(q, m)})
        all(q) == upto(q, Len(DataList(data, q)))
    IN CASE key = "routers" -> upto("routers", k)
         [] key = "networks" -> all("routers") + upto("networks", k)
         [] key = "summary" -> all("routers") + all("networks") + upto("summary", k)

\* the number of references of record k under the key
NumReferences(key, k) ==
    CASE key = "routers" -> Len(GetList(data[key][k], "links").v)
      [] key = "networks" -> Len(GetList(data[key][k], "attached_routers").v)
      [] key = "summary" -> 1

\* the endpoint of an edge that stands for the record's own node
PrimaryEnd(key, e) == IF key = "routers" THEN e[1] ELSE e[2]

\* C20: for a record whose primary identifier is empty, add_nodes registers
\* one ghost node, and add_edges uses that node as the endpoint of the
\* record's edges and creates no second ghost for the record's primary (at
\* most one new ghost per reference).
C20_OneGhostPerEmptyPrimary ==
    [][(/\ hpc \in {"edges_routers", "edges_networks", "edges_summary"}
        /\ EmptyPrimary(PhaseKey(hpc), hidx))
       => LET key == PhaseKey(hpc)
          IN /\ ghost_count' - ghost_count <= NumReferences(key, hidx)
             /\ \A n \in (Len(edges) + 1)..Len(edges') :
                   PrimaryEnd(key, edges'[n]) = GhostId(EmptyRank(key, hidx))]_vars

\* reference n of record k under the key: a link target, an attached router,
\* the adv_router
ReferenceAt(key, k, n) ==
    CASE key = "routers" -> GetList(data[key][k], "links").v[n]
      [] key = "networks" -> GetList(data[key][k], "attached_routers").v[n]
      [] key = "summary" -> Get(data[key][k], "adv_router")

\* the references of records k.. under the key, in document order, each with
\* the primary identifier of its record
RECURSIVE ReferencesFrom(_, _)
ReferencesFrom(key, k) ==
    IF k > Len(DataList(data, key)) THEN <<>>
    ELSE [n \in 1..NumReferences(key, k) |->
             [key |-> key,
              primary |-> Get(data[key][k], PrimaryKey(key)),
              ref |-> ReferenceAt(key, k, n)]]
         \o ReferencesFrom(key, k + 1)

\* every reference of the document, in the order of add_edges
AllReferences ==
    ReferencesFrom("routers", 1) \o ReferencesFrom("networks", 1)
    \o ReferencesFrom("summary", 1)

\* the endpoint of an edge that stands for the reference
ReferenceEnd(key, e) == IF key = "routers" THEN e[2] ELSE e[1]

\* C21: the edge list holds, in this order and without deduplication, one
\* edge per link of each router (router to link target), one edge per
\* attached router of each network (attached router to network) and one edge
\* per summary (adv_router to link): its length is the number of references
\* of the document, and edge k joins the record and the target of reference k.
C21_EdgeOrder ==
    GraphBuilt
    => /\ Len(edges) = Len(AllReferences)
       /\ \A k \in 1..Len(edges) :
             LET r == AllReferences[k]
             IN /\ Truthy(r.primary) => PrimaryEnd(r.key, edges[k]) = r.primary.v
                /\ (Truthy(r.ref) /\ r.ref \in DeclaredIds(data))
                   => ReferenceEnd(r.key, edges[k]) = r.ref.v

\* C21, witness: a built graph with the same ordered pair twice in its edge
\* list and edges of two record types
C21_Witness ==
    /\ hpc = "done"
    /\ \E a, b \in 1..Len(edges) : a < b /\ edges[a] = edges[b]
    /\ Len(DataList(data, "routers")) >= 1
    /\ Len(DataList(data, "networks")) >= 1
    /\ Len(edges) = 3

\* the non-empty primary identifiers the normalized document declares
DeclaredNames == {x.v : x \in {y \in DeclaredIds(data) : Truthy(y)}}

\* no two nodes of the graph have the same id
NodeIdsDistinct ==
    \A a, b \in 1..Len(nodes) : a < b => nodes[a].id # nodes[b].id

\* C22: the node set never holds two nodes with the same id, a synthesized
\* ghost id never equals the id of a declared Router, Network or Summary
\* node, and so the built graph has as many nodes as the document declares
\* distinct ids plus the ghosts created (ghost counter minus 1).
C22_NodeIdsUnique ==
    hpc # "add_nodes"
    => /\ NodeIdsDistinct
       /\ \A n \in 1..(ghost_count - 1) : GhostId(n) \notin DeclaredNames
       /\ GraphBuilt => Len(nodes) = Cardinality(DeclaredNames) + ghost_count - 1

\* the value under the first key of the list that is in d, None when none is
RECURSIVE FirstPresent(_, _)
FirstPresent(d, keys) ==
    IF keys = <<>> THEN None
    ELSE IF Head(keys) \in DOMAIN d THEN d[Head(keys)]
         ELSE FirstPresent(d, Tail(keys))

\* the value under the first key of the list whose value is non-empty; when
\* there is none, what is under the last key (None when it is absent)
RECURSIVE FirstNonEmpty(_, _)
FirstNonEmpty(d, keys) ==
    IF Len(keys) = 1 \/ Truthy(Get(d, Head(keys))) THEN Get(d, Head(keys))
    ELSE FirstNonEmpty(d, Tail(keys))

IsPresent(x) == x.t # "none"

\* dst holds the records of src in the parsers' shape with every canonical
\* field resolved by Pick over its alias list; a link is the stringified raw
\* link where Pick finds nothing acceptable (or the link is no object)
AliasResolution(Pick(_, _), Accept(_), src, dst) ==
    /\ Len(dst["routers"]) = Len(src["router_lsas"])
    /\ \A k \in 1..Len(src["router_lsas"]) :
          LET r == src["router_lsas"][k]
              links == GetList(r, "links").v
              out == dst["routers"][k]
          IN /\ out.router_id = Pick(r, <<"router_id", "router", "id">>)
             /\ Len(out.links.v) = Len(links)
             /\ \A n \in 1..Len(links) :
                   LET l == links[n]
                       raw == S(StrOf(l))
                   IN out.links.v[n]
                        = IF l.t = "dict"
                          THEN LET v == Pick(l.v, <<"link_id", "link">>)
                               IN IF Accept(v) THEN v ELSE raw
                          ELSE raw
    /\ Len(dst["networks"]) = Len(src["network_lsas"])
    /\ \A k \in 1..Len(src["network_lsas"]) :
          dst["networks"][k].network_id
            = Pick(src["network_lsas"][k], <<"network_id", "network">>)
    /\ Len(dst["summary"]) = Len(src["summary_lsas"])
    /\ \A k \in 1..Len(src["summary_lsas"]) :
          LET r == src["summary_lsas"][k]
          IN /\ dst["summary"][k].link
                  = Pick(r, <<"link_id", "link", "prefix", "adv_router">>)
             /\ dst["summary"][k].adv_router
                  = Pick(r, <<"adv_router", "adv", "advertising_router">>)

\* C23 as stated: normalizing a document in the parsers' shape resolves each
\* canonical field by its alias list in priority order, the first key present
\* winning, a later key used only when every earlier key is absent.
C23_FirstKeyPresent ==
    [][(hpc = "add_nodes" /\ "router_lsas" \in DOMAIN data)
       => AliasResolution(FirstPresent, IsPresent, data, data')]_vars

\* C23, amended: each canonical field is resolved by its alias list in
\* priority order, the first key with a non-empty value winning; a later key
\* is used when every earlier key is absent or holds an empty value, and when
\* no key holds a non-empty value the field is what is under the last key
\* (null when absent), a link the stringified raw link.
C23_FirstNonEmptyKey ==
    [][(hpc = "add_nodes" /\ "router_lsas" \in DOMAIN data)
       => AliasResolution(FirstNonEmpty, Truthy, data, data')]_vars

\* C23, witness: a normalized router whose router_id key holds the empty
\* string and whose id was taken from a later alias
C23_Witness ==
    /\ hpc # "add_nodes"
    /\ "router_lsas" \in DOMAIN data
    /\ \E k \in 1..Len(data["router_lsas"]) :
          /\ Get(data["router_lsas"][k], "router_id") = S("")
          /\ data["routers"][k].router_id = S("A")
    /\ \E k \in 1..Len(data["summary_lsas"]) :
          /\ "link_id" \notin DOMAIN data["summary_lsas"][k]
          /\ data["summary"][k].link = S("P")

\* the reference names an id that some record of the document declares
IsDeclared(x) == Truthy(x) /\ x \in DeclaredIds(data)

\* the references of record k under the key that name no declared id
UndeclaredAt(key, k) ==
    {n \in 1..NumReferences(key, k) : ~IsDeclared(ReferenceAt(key, k, n))}

\* C24: a reference (link target, attached router, adv_router or link) to an
\* id that some record declares as its primary id never creates a ghost node,
\* whatever the type of the declaring record and wherever it stands in the
\* document: the edges of a record create at most one ghost per reference to
\* an undeclared id (and one for its own primary id when that is empty).
C24_DeclaredReferenceNoGhost ==
    [][(hpc \in {"edges_routers", "edges_networks", "edges_summary"})
       => LET key == PhaseKey(hpc)
          IN ghost_count' - ghost_count
               <= Cardinality(UndeclaredAt(key, hidx))
                  + (IF EmptyPrimary(key, hidx) THEN 1 ELSE 0)]_vars

\* C24, witness: a router's link names the id a network declares, the
\* network's attached router names the router, and no ghost was made
C24_Witness ==
    /\ hpc = "done"
    /\ ghost_count = 1
    /\ \E k \in 1..Len(DataList(data, "routers")) :
          \E m \in 1..Len(DataList(data, "networks")) :
             /\ \E n \in 1..NumReferences("routers", k) :
                   ReferenceAt("routers", k, n) = Get(data["networks"][m], "network_id")
             /\ \E n \in 1..NumReferences("networks", m) :
                   ReferenceAt("networks", m, n) = Get(data["routers"][k], "router_id")
    /\ \E k \in 1..Len(edges) : edges[k][1] # edges[k][2]

\* get_node finds nothing for the reference in node_map as it is now
IsUnresolved(x) == ~Truthy(x) \/ x.v \notin DOMAIN node_map

\* the references of record k under the key that are unresolved
UnresolvedAt(key, k) ==
    {n \in 1..NumReferences(key, k) : IsUnresolved(ReferenceAt(key, k, n))}

\* C25: resolving a reference to an id absent from node_map creates a fresh
\* ghost and leaves that id absent from node_map, so that the ghost counter
\* advances by one per unresolved reference occurrence (n references to the
\* same undeclared id give n ghosts), besides the ghost of an empty primary id.
C25_GhostPerUnresolvedReference ==
    [][(hpc \in {"edges_routers", "edges_networks", "edges_summary"})
       => LET key == PhaseKey(hpc)
          IN /\ ghost_count' - ghost_count
                  = Cardinality(UnresolvedAt(key, hidx))
                    + (IF EmptyPrimary(key, hidx) THEN 1 ELSE 0)
             /\ \A n \in UnresolvedAt(key, hidx) :
                   Truthy(ReferenceAt(key, hidx, n))
                   => ReferenceAt(key, hidx, n).v \notin DOMAIN node_map']_vars

====
